---------------------------- MODULE Spec2Model ----------------------------
(***************************************************************************)
(* Edge Fair Scheduler (EFS): request handler (EFS.py), Scheduler thread   *)
(* (Scheduler.py) and Monitor thread (Monitor.py) sharing one SQLite       *)
(* database (edge.db) and one container runtime.                           *)
(*                                                                         *)
(* Every SQL statement and every runtime call is one step.  A connection   *)
(* that has executed INSERT/DELETE holds the database write lock until its *)
(* commit; its writes are invisible to the other connections until then.   *)
(* A writer that finds the lock taken waits (busy timeout).                *)
(***************************************************************************)
EXTENDS Integers, Sequences, FiniteSets, TLC

\* ------------------------------------------------------------ configuration
MAX_QUEUE == 1
MAX_JOBS == 2
PORT_RANGE_LOWER == 5000
PORT_RANGE_UPPER == 5002
FIRST_SEQ == 1000

\* ------------------------------------------------------------------ bounds
NumWorkers == 2
MaxRequests == 3
MaxTime == 0

Workers == 1..NumWorkers
\* database connections: the workers', the Scheduler's, the Monitor's
NoConn == 0
SchedConn == NumWorkers + 1
MonConn == NumWorkers + 2
JobIds == (FIRST_SEQ + 1)..(FIRST_SEQ + MaxRequests)
Clients == {"A"}
Priorities == {1}
\* a ports string is modelled by its comma-separated tokens
PortRequests == {<<"22">>}

VARIABLES
    job_queue,   \* committed rows of table job_queue
    jobs,        \* committed rows of table jobs (history)
    term_queue,  \* committed rows of table term_queue
    seq,         \* SQLITE_SEQUENCE.seq for job_queue
    lock,        \* connection holding the database write lock
    txn,         \* uncommitted writes of the lock holder
    now,         \* the last CURRENT_TIMESTAMP read
    strategy,    \* Scheduler.strategy, as read from config.ini
    stopRequest, \* Scheduler.stopRequest is set
    joiner,      \* the thread that calls Scheduler.join
    running,     \* running containers: [name |-> str(job id), ports]
    created,     \* names of containers that exist but do not run
    wk,          \* request workers (threads of handle_request)
    nreq,        \* requests accepted so far
    sched,       \* Scheduler thread
    mon,         \* Monitor thread
    replies,     \* replies sent by request workers
    started,     \* job ids of the Started notifications sent
    notices,     \* Terminated notifications sent by the Monitor
    admitted,    \* ids in the order the rows were inserted into job_queue
    launched,    \* names of the containers ever started
    removed      \* ids whose waiting row a Terminate worker deleted

vars == <<job_queue, jobs, term_queue, seq, lock, txn, now, strategy,
          stopRequest, joiner, running, created, wk, nreq, sched, mon, replies, started, notices,
          admitted, launched, removed>>

\* the host's clock, the configuration and the shutdown
hostVars == <<now, strategy, stopRequest, joiner>>
dbVars == <<job_queue, jobs, term_queue, seq, lock, txn>>
ghostVars == <<admitted, launched, removed>>

\* ------------------------------------------------------------------ values
NoRow == [id |-> 0, cust_name |-> "", priority |-> 0, timestamp |-> 0,
          ports |-> <<>>]
NoTxn == [ins_jobs |-> {}, del_queue |-> {}, ins_term |-> {}, del_term |-> {}]

\* Python values: an int and a str never compare equal
PyInt(n) == <<"int", n>>
PyStr(n) == <<"str", n>>

Ids(rows) == {r.id : r \in rows}
TermIds(rows) == {r.job_id : r \in rows}
Names(cs) == {c.name : c \in cs}
Range(f) == {f[x] : x \in DOMAIN f}
SetMax(S) == CHOOSE x \in S : \A y \in S : y <= x

IdleWorker == [pc |-> "idle", kind |-> "", job_id |-> 0, row |-> NoRow,
               q_len |-> -1, attempt |-> 0, ndel |-> 0]
IdleSched == [pc |-> "loop", currentJobs |-> 0, next_priority |-> 0,
              next_client |-> "", job |-> NoRow, used_ports |-> {},
              ports_dict |-> <<>>, launches |-> 0]
IdleMon == [pc |-> "loop", previous |-> <<>>, current |-> <<>>,
            api_error |-> FALSE, assigned |-> FALSE, idle |-> {},
            containers |-> <<>>, container |-> FALSE]
NoJoin == [pc |-> "idle", container |-> PyStr(0)]
NoReply == [Msg |-> "", RequestType |-> "", JobID |-> 0, Reason |-> ""]

Init ==
    /\ job_queue = {}
    /\ jobs = {}
    /\ term_queue = {}
    /\ seq = FIRST_SEQ
    /\ lock = NoConn
    /\ txn = NoTxn
    /\ now = 0
    /\ strategy = 0
    /\ stopRequest = FALSE
    /\ joiner = NoJoin
    /\ running = {}
    /\ created = {}
    /\ wk = [w \in Workers |-> IdleWorker]
    /\ nreq = 0
    /\ sched = IdleSched
    /\ mon = IdleMon
    /\ replies = {}
    /\ started = {}
    /\ notices = {}
    /\ admitted = <<>>
    /\ launched = {}
    /\ removed = {}


\* ------------------------------------------------------------ the database
\* commit: the pending writes of the lock holder become visible at once
CommitQueue(q, t) == {r \in q : r.id \notin t.del_queue}
CommitJobs(h, t) == h \cup t.ins_jobs
CommitTerm(tq, t) == {r \in tq : r.job_id \notin t.del_term} \cup t.ins_term

Commit ==
    /\ job_queue' = CommitQueue(job_queue, txn)
    /\ jobs' = CommitJobs(jobs, txn)
    /\ term_queue' = CommitTerm(term_queue, txn)
    /\ txn' = NoTxn
    /\ lock' = NoConn
    /\ seq' = seq

\* id INTEGER PRIMARY KEY AUTOINCREMENT: one more than the largest rowid the
\* table has ever held
NextRowIdReused(s, q) == SetMax({FIRST_SEQ} \cup Ids(q)) + 1
NextRowId(s, q) == SetMax({s} \cup Ids(q)) + 1

\* --------------------------------------------------- EFS.py: request worker
Set(w, r) == wk' = [wk EXCEPT ![w] = r]
Reply(m) == replies' = replies \cup {m}

\* start_connection_service: a thread per connection; the threads are
\* interchangeable, the request goes to the first that is free
FreeWorker(w) ==
    /\ wk[w].pc = "idle"
    /\ \A v \in Workers : v < w => wk[v].pc # "idle"

\* handle_request: a New Job request arrives
RecvNewJob(w) ==
    /\ FreeWorker(w)
    /\ nreq < MaxRequests
    /\ \E c \in Clients, p \in Priorities, ps \in PortRequests :
          Set(w, [IdleWorker EXCEPT !.pc = "nj_count", !.kind = "New Job",
                  !.row = [NoRow EXCEPT !.cust_name = c, !.priority = p,
                                        !.ports = ps]])
    /\ nreq' = nreq + 1
    /\ UNCHANGED <<dbVars, hostVars, running, created, sched, mon, replies,
                   started, notices, ghostVars>>

\* add_new_job: "if space available queue job else reject"
HasSpace(q_len) == q_len <= MAX_QUEUE

\* add_new_job: SELECT COUNT(*) FROM job_queue, and the test on it
AddNewJobCount(w) ==
    /\ wk[w].pc = "nj_count"
    /\ LET n == Cardinality(job_queue) IN
          Set(w, [wk[w] EXCEPT !.q_len = n,
                  !.pc = IF HasSpace(n) THEN "nj_insert" ELSE "nj_refuse"])
    /\ UNCHANGED <<dbVars, hostVars, running, created, nreq, sched, mon, replies,
                   started, notices, ghostVars>>

\* add_new_job: INSERT INTO job_queue ...; db.commit().  The row's timestamp
\* is CURRENT_TIMESTAMP, read from a clock that never runs backwards; time
\* passes here
AddNewJobInsert(w) ==
    /\ wk[w].pc = "nj_insert"
    /\ lock = NoConn
    /\ \E t \in now..MaxTime :
          LET id == NextRowId(seq, job_queue)
              r == [wk[w].row EXCEPT !.id = id, !.timestamp = t]
          IN /\ now' = t
             /\ job_queue' = job_queue \cup {r}
             /\ seq' = id
             /\ admitted' = Append(admitted, id)
             /\ Set(w, [wk[w] EXCEPT !.pc = "nj_reply", !.job_id = id])
    /\ UNCHANGED <<jobs, term_queue, lock, txn, strategy, stopRequest, joiner,
                   running, created, nreq, sched, mon, replies, started,
                   notices, launched, removed>>

\* add_new_job: SELECT last_insert_rowid(); send Accepted
AddNewJobReply(w) ==
    /\ wk[w].pc = "nj_reply"
    /\ Reply([NoReply EXCEPT !.Msg = "Accepted", !.RequestType = "Start",
                             !.JobID = wk[w].job_id])
    /\ Set(w, IdleWorker)
    /\ UNCHANGED <<dbVars, hostVars, running, created, nreq, sched, mon, started,
                   notices, ghostVars>>

\* add_new_job: send Refused
AddNewJobRefuse(w) ==
    /\ wk[w].pc = "nj_refuse"
    /\ Reply([NoReply EXCEPT !.Msg = "Refused",
                             !.Reason = "No space in job queue"])
    /\ Set(w, IdleWorker)
    /\ UNCHANGED <<dbVars, hostVars, running, created, nreq, sched, mon, started,
                   notices, ghostVars>>

\* the job ids clients ask to terminate: those issued so far and one that
\* has not been issued
TerminateIds(s) == {j \in JobIds : j <= s + 1}

\* handle_request: a Terminate request arrives
RecvTerminate(w) ==
    /\ FreeWorker(w)
    /\ nreq < MaxRequests
    /\ \E j \in TerminateIds(seq) :
          Set(w, [IdleWorker EXCEPT !.pc = "t_count", !.kind = "Terminate",
                                    !.job_id = j, !.attempt = 1])
    /\ nreq' = nreq + 1
    /\ UNCHANGED <<dbVars, hostVars, running, created, sched, mon, replies,
                   started, notices, ghostVars>>

\* terminate_job: SELECT COUNT(*) FROM job_queue WHERE id=?, and the test
TerminateCount(w) ==
    /\ wk[w].pc = "t_count"
    /\ LET count == Cardinality({r \in job_queue : r.id = wk[w].job_id}) IN
          Set(w, [wk[w] EXCEPT !.q_len = count,
                  !.pc = IF count > 0 THEN "t_delete" ELSE "t_insert"])
    /\ UNCHANGED <<dbVars, hostVars, running, created, nreq, sched, mon, replies,
                   started, notices, ghostVars>>

\* terminate_job: DELETE FROM job_queue WHERE id=? (not yet committed)
TerminateDelete(w) ==
    /\ wk[w].pc = "t_delete"
    /\ lock = NoConn
    /\ lock' = w
    /\ txn' = [NoTxn EXCEPT !.del_queue = {wk[w].job_id}]
    /\ Set(w, [wk[w] EXCEPT !.pc = "t_reply_term",
               !.ndel = Cardinality({r \in job_queue : r.id = wk[w].job_id})])
    /\ UNCHANGED <<job_queue, jobs, term_queue, seq, hostVars, running, created,
                   nreq, sched, mon, replies, started, notices, ghostVars>>

\* terminate_job: send Terminated
TerminateReplyTerminated(w) ==
    /\ wk[w].pc = "t_reply_term"
    /\ Reply([NoReply EXCEPT !.Msg = "Terminated", !.JobID = wk[w].job_id,
                             !.Reason = "Termination Requested"])
    /\ Set(w, [wk[w] EXCEPT !.pc = "t_commit"])
    /\ UNCHANGED <<dbVars, hostVars, running, created, nreq, sched, mon, started,
                   notices, ghostVars>>

\* terminate_job: INSERT INTO term_queue(job_id, reason); job_id is the
\* primary key, so a second row for it raises sqlite3.IntegrityError and
\* leaves the connection's transaction open
TerminateInsert(w) ==
    /\ wk[w].pc = "t_insert"
    /\ lock = NoConn
    /\ lock' = w
    /\ IF wk[w].job_id \in TermIds(term_queue)
       THEN /\ txn' = NoTxn
            /\ Set(w, [wk[w] EXCEPT !.pc = "t_retry", !.attempt = 2])
       ELSE /\ txn' = [NoTxn EXCEPT !.ins_term =
                          {[job_id |-> wk[w].job_id,
                            reason |-> "Termination Requested"]}]
            /\ Set(w, [wk[w] EXCEPT !.pc = "t_reply_acc"])
    /\ UNCHANGED <<job_queue, jobs, term_queue, seq, hostVars, running, created,
                   nreq, sched, mon, replies, started, notices, ghostVars>>

\* handle_request: except sqlite3.DatabaseError: terminate_job(...) again,
\* on a new connection while the first still holds the write lock; its
\* INSERT fails with "database is locked", which ends the thread without a
\* reply and closes both connections
TerminateRetry(w) ==
    /\ wk[w].pc = "t_retry"
    /\ lock = w
    /\ lock' = NoConn
    /\ txn' = NoTxn
    /\ Set(w, IdleWorker)
    /\ UNCHANGED <<job_queue, jobs, term_queue, seq, hostVars, running, created,
                   nreq, sched, mon, replies, started, notices, ghostVars>>

\* terminate_job: send Accepted
TerminateReplyAccepted(w) ==
    /\ wk[w].pc = "t_reply_acc"
    /\ Reply([NoReply EXCEPT !.Msg = "Accepted", !.RequestType = "Terminate",
                             !.JobID = wk[w].job_id])
    /\ Set(w, [wk[w] EXCEPT !.pc = "t_commit"])
    /\ UNCHANGED <<dbVars, hostVars, running, created, nreq, sched, mon, started,
                   notices, ghostVars>>

\* terminate_job: conn.close(); db.commit()
TerminateCommit(w) ==
    /\ wk[w].pc = "t_commit"
    /\ lock = w
    /\ Commit
    /\ removed' = IF wk[w].ndel > 0 THEN removed \cup {wk[w].job_id}
                  ELSE removed
    /\ Set(w, IdleWorker)
    /\ UNCHANGED <<hostVars, running, created, nreq, sched, mon, replies, started,
                   notices, admitted, launched>>

WorkerStep(w) ==
    \/ RecvNewJob(w)
    \/ AddNewJobCount(w)
    \/ AddNewJobInsert(w)
    \/ AddNewJobReply(w)
    \/ AddNewJobRefuse(w)
    \/ RecvTerminate(w)
    \/ TerminateCount(w)
    \/ TerminateDelete(w)
    \/ TerminateReplyTerminated(w)
    \/ TerminateInsert(w)
    \/ TerminateRetry(w)
    \/ TerminateReplyAccepted(w)
    \/ TerminateCommit(w)

\* ------------------------------------------- EFS.py: malformed requests
\* the payloads that are not a well-formed New Job or Terminate request
Payloads == {"not JSON", "no Request", "other Request", "New Job, no Job",
             "Terminate, no JobID"}

\* handle_request: a malformed payload arrives
RecvInvalid(w) ==
    /\ FreeWorker(w)
    /\ nreq < MaxRequests
    /\ \E p \in Payloads :
          Set(w, [IdleWorker EXCEPT !.pc = "parse", !.kind = p])
    /\ nreq' = nreq + 1
    /\ UNCHANGED <<dbVars, hostVars, running, created, sched, mon, replies,
                   started, notices, ghostVars>>

\* handle_request: json.loads(...) and the tests on request['Request'].
\* json.loads raises on a payload that is not JSON and request['Request']
\* raises KeyError on an object without that field; terminate_job raises
\* KeyError at request['JobID'] before its first statement.  Nothing catches
\* these: the thread ends and no reply is sent
HandleRequest(w) ==
    /\ wk[w].pc = "parse"
    /\ Set(w, IF wk[w].kind = "other Request"
              THEN [wk[w] EXCEPT !.pc = "invalid"]
              ELSE IF wk[w].kind = "New Job, no Job"
              THEN [wk[w] EXCEPT !.pc = "nj_count_no_job"]
              ELSE IdleWorker)
    /\ UNCHANGED <<dbVars, hostVars, running, created, nreq, sched, mon,
                   replies, started, notices, ghostVars>>

\* handle_invalid_message: send Refused
HandleInvalidMessage(w) ==
    /\ wk[w].pc = "invalid"
    /\ Reply([NoReply EXCEPT !.Msg = "Refused",
                             !.Reason = "The request message was invalid"])
    /\ Set(w, IdleWorker)
    /\ UNCHANGED <<dbVars, hostVars, running, created, nreq, sched, mon,
                   started, notices, ghostVars>>

\* add_new_job for a request without 'Job': the queue is counted; with space
\* request['Job'] raises KeyError while the INSERT's arguments are built
\* (handle_request catches sqlite3.DatabaseError only), without space the
\* client is told that the queue is full
AddNewJobNoJob(w) ==
    /\ wk[w].pc = "nj_count_no_job"
    /\ IF HasSpace(Cardinality(job_queue))
       THEN UNCHANGED replies
       ELSE Reply([NoReply EXCEPT !.Msg = "Refused",
                                  !.Reason = "No space in job queue"])
    /\ Set(w, IdleWorker)
    /\ UNCHANGED <<dbVars, hostVars, running, created, nreq, sched, mon,
                   started, notices, ghostVars>>

InvalidStep(w) ==
    \/ RecvInvalid(w)
    \/ HandleRequest(w)
    \/ HandleInvalidMessage(w)
    \/ AddNewJobNoJob(w)


\* ------------------------------------------------- Scheduler.py: port maps
HostPorts == PORT_RANGE_LOWER..PORT_RANGE_UPPER

\* random.randint(self.ports_lower, self.ports_upper): any port of the range
RandIntPastUpper(lo, hi) == {PyInt(p) : p \in lo..(hi + 1)}
RandInt(lo, hi) == {PyInt(p) : p \in lo..hi}

\* docker's inspect_container reports a binding's HostPort as a string
HostPortStr(v) == PyStr(v[2])

\* get_used_ports: the HostPort of every binding of every running container
UsedPorts(run) ==
    UNION {{HostPortStr(c.ports[k]) : k \in DOMAIN c.ports} : c \in run}

\* get_free_ports: num ports, each drawn at random and kept when it is
\* "not in used_ports"
FreePorts(num, used) ==
    {s \in [1..num -> RandInt(PORT_RANGE_LOWER, PORT_RANGE_UPPER)] :
        \A i \in 1..num : s[i] \notin used}

\* map_ports: req_ports = ports.split(',') + ['22'], mapped to the free ports
\* in order (a later entry of the same key overwrites an earlier one)
ReqPorts(ports) == Append(ports, "22")
Zip(req, free) ==
    [k \in Range(req) |->
        free[SetMax({i \in 1..Len(req) : req[i] = k})]]
MapPorts(ports, run) ==
    {Zip(ReqPorts(ports), f) :
        f \in FreePorts(Len(ReqPorts(ports)), UsedPorts(run))}

\* ------------------------------------------------------ container runtime
\* the host ports a container binds
Bound(c) == {c.ports[k][2] : k \in DOMAIN c.ports}
BoundBy(run) == UNION {Bound(c) : c \in run}

\* the runtime starts a container only if each of its bindings gets a host
\* port of its own that no running container holds
Bindable(ports, run) ==
    /\ \A k1, k2 \in DOMAIN ports : k1 # k2 => ports[k1] # ports[k2]
    /\ \A k \in DOMAIN ports : ports[k][2] \notin BoundBy(run)

\* ------------------------------------------------ Scheduler.py: Scheduler
Sched(r) == sched' = r
Crash == Sched([IdleSched EXCEPT !.pc = "crashed"])

\* run: "check if more jobs allowed"
GateOpenAtLimit(q_size, currentJobs) == q_size > 0 /\ currentJobs <= MAX_JOBS
GateOpen(q_size, currentJobs) == q_size > 0 /\ currentJobs < MAX_JOBS

\* run: while not self.stopRequest.is_set():
\*          currentJobs = len(self.dockr.containers.list())
SchedList ==
    /\ sched.pc = "loop"
    /\ Sched(IF stopRequest THEN [IdleSched EXCEPT !.pc = "stopped"]
             ELSE [IdleSched EXCEPT !.pc = "gate",
                                    !.currentJobs = Cardinality(running)])
    /\ UNCHANGED <<dbVars, hostVars, running, created, wk, nreq, mon, replies,
                   started, notices, ghostVars>>

\* run: get_queue_size() > 0 and currentJobs < maxJobs, then check_resource()
\* (the host's free CPU and memory are the environment's)
SchedGate ==
    /\ sched.pc = "gate"
    /\ \E resources \in BOOLEAN :
          IF GateOpen(Cardinality(job_queue), sched.currentJobs) /\ resources
          THEN Sched([sched EXCEPT !.pc = "select"])
          ELSE Sched(IdleSched)
    /\ UNCHANGED <<dbVars, hostVars, running, created, wk, nreq, mon, replies,
                   started, notices, ghostVars>>

\* ORDER BY datetime(timestamp) ASC LIMIT 1: the table is scanned in rowid
\* order and the first row of the least timestamp is kept
Newest(rows) ==
    CHOOSE r \in rows : \A o \in rows :
        \/ r.timestamp > o.timestamp
        \/ r.timestamp = o.timestamp /\ r.id <= o.id
OldestLastOfTies(rows) ==
    CHOOSE r \in rows : \A o \in rows :
        \/ r.timestamp < o.timestamp
        \/ r.timestamp = o.timestamp /\ r.id >= o.id
Oldest(rows) ==
    CHOOSE r \in rows : \A o \in rows :
        \/ r.timestamp < o.timestamp
        \/ r.timestamp = o.timestamp /\ r.id <= o.id

\* timestamp>=date('now','-7 day'): time is counted in days
Window == 7
InWindowOrOlder(r, today) == r.timestamp <= today
InWindow(r, today) == r.timestamp >= today - Window

\* get_next_priority: priority_weighted = {3: 0.5, 2: 0.35, 1: 0.15}, in
\* hundredths
priority_weighted == [p \in {1, 2, 3} |->
                         CASE p = 3 -> 50 [] p = 2 -> 35 [] p = 1 -> 15]

\* a frequency count/total_freq is kept as <<count, total_freq>>, 0.0 as
\* <<0, 1>>; freq < weight is decided exactly (the quotients of the counts
\* met here are never within a rounding error of a weight)
BelowOrAtWeight(freq, weight) == freq[1] * 100 <= weight * freq[2]
BelowWeight(freq, weight) == freq[1] * 100 < weight * freq[2]

\* sorted(waiting_priorities, reverse=True)
RECURSIVE SortedAsc(_)
SortedAsc(S) ==
    IF S = {} THEN <<>>
    ELSE <<CHOOSE x \in S : \A y \in S : x <= y>>
             \o SortedAsc(S \ {CHOOSE x \in S : \A y \in S : x <= y})
RECURSIVE SortedDesc(_)
SortedDesc(S) ==
    IF S = {} THEN <<>>
    ELSE <<SetMax(S)>> \o SortedDesc(S \ {SetMax(S)})

\* select_priority(waiting, priority_freq, priority_weighted, index), index
\* counted from 1
RECURSIVE select_priority(_, _, _, _)
select_priority(waiting, priority_freq, weighted, index) ==
    IF BelowWeight(priority_freq[waiting[index]], weighted[waiting[index]])
    THEN waiting[index]
    ELSE IF index = Len(waiting) THEN waiting[1]
    ELSE select_priority(waiting, priority_freq, weighted, index + 1)

\* get_next_priority: the frequency of each waiting priority among the jobs
\* of the last 7 days, and the priority select_priority picks
get_next_priority(q, h, today) ==
    LET total_freq == Cardinality({r \in h : InWindow(r, today)})
        waiting_priorities == {r.priority : r \in q}
        count(p) == Cardinality({r \in h : InWindow(r, today)
                                            /\ r.priority = p})
        priority_freq == [p \in waiting_priorities |->
                             IF count(p) > 0 /\ total_freq > 0
                             THEN <<count(p), total_freq>> ELSE <<0, 1>>]
    IN select_priority(SortedDesc(waiting_priorities), priority_freq,
                       priority_weighted, 1)

\* get_next_client: the waiting clients (of next_priority when priority is
\* considered) and, for each, the number of its jobs of the last 7 days (of
\* that priority)
WaitingClients(q, priority, next_priority) ==
    {r.cust_name : r \in {x \in q : priority => x.priority = next_priority}}
client_freq_any(h, today, priority, next_priority, c) ==
    Cardinality({r \in h : InWindow(r, today) /\ r.cust_name = c})
client_freq(h, today, priority, next_priority, c) ==
    Cardinality({r \in h : /\ InWindow(r, today)
                           /\ r.cust_name = c
                           /\ priority => r.priority = next_priority})

\* get_next_client: min(client_freq, key=client_freq.get) gives the first
\* client of the least count in the iteration order of a set of strings,
\* which differs from one run of the interpreter to the next: any of them
get_next_client(q, h, today, priority, next_priority) ==
    LET waiting_clients == WaitingClients(q, priority, next_priority) IN
    {c \in waiting_clients : \A d \in waiting_clients :
        client_freq(h, today, priority, next_priority, c)
            <= client_freq(h, today, priority, next_priority, d)}

\* start_job with strategy 2 or 3: next_priority = self.get_next_priority();
\* with no job waiting, waiting[0] raises IndexError, which ends the thread
SchedNextPriority ==
    /\ sched.pc = "select"
    /\ strategy \in {2, 3}
    /\ IF job_queue = {}
       THEN Crash
       ELSE Sched([sched EXCEPT
                     !.next_priority = get_next_priority(job_queue, jobs, now),
                     !.pc = IF strategy = 2 THEN "select_job"
                            ELSE "select_client"])
    /\ UNCHANGED <<dbVars, hostVars, running, created, wk, nreq, mon, replies,
                   started, notices, ghostVars>>

\* start_job with strategy 1 or 3: get_next_client; with no client waiting,
\* min() of an empty dictionary raises ValueError, which ends the thread
SchedNextClient ==
    /\ \/ sched.pc = "select" /\ strategy = 1
       \/ sched.pc = "select_client"
    /\ LET next == get_next_client(job_queue, jobs, now, strategy = 3,
                                   sched.next_priority)
       IN IF next = {}
          THEN Crash
          ELSE \E c \in next :
                  Sched([sched EXCEPT !.next_client = c, !.pc = "select_job"])
    /\ UNCHANGED <<dbVars, hostVars, running, created, wk, nreq, mon, replies,
                   started, notices, ghostVars>>

\* the rows the strategy's SELECT ... FROM job_queue [WHERE ...] considers
Candidates(q, s, next_client, next_priority) ==
    {r \in q : /\ s \in {1, 3} => r.cust_name = next_client
               /\ s \in {2, 3} => r.priority = next_priority}

\* get_next_job, get_next_job_clients, get_next_job_priority,
\* get_next_job_priority_client: SELECT * FROM job_queue [WHERE ...] ORDER BY
\* ... LIMIT 1; job[0] of an empty result raises TypeError, which ends the
\* thread
SchedSelect ==
    /\ sched.pc = IF strategy = 0 THEN "select" ELSE "select_job"
    /\ LET rows == Candidates(job_queue, strategy, sched.next_client,
                              sched.next_priority)
       IN IF rows = {}
          THEN Crash
          ELSE Sched([sched EXCEPT !.pc = "move_insert",
                                   !.job = Oldest(rows)])
    /\ UNCHANGED <<dbVars, hostVars, running, created, wk, nreq, mon, replies,
                   started, notices, ghostVars>>

\* the rows INSERT INTO jobs SELECT * FROM job_queue WHERE id=? copies
MovedRowsWithoutPorts(q, id) ==
    {[r EXCEPT !.ports = <<>>] : r \in {x \in q : x.id = id}}
MovedRows(q, id) == {r \in q : r.id = id}

\* what the other connections see of table jobs once rows are inserted
\* into it and self.db.commit() has not run: the table as it was
Autocommitted(h, rows) == h \cup rows
Uncommitted(h, rows) == h

\* get_next_job: INSERT INTO jobs SELECT * FROM job_queue WHERE id=?
SchedMoveInsert ==
    /\ sched.pc = "move_insert"
    /\ lock = NoConn
    /\ LET rows == MovedRows(job_queue, sched.job.id) IN
          IF Ids(rows) \cap Ids(jobs) # {}
          THEN \* sqlite3.IntegrityError ends the thread
               Crash /\ UNCHANGED <<lock, txn, jobs>>
          ELSE /\ lock' = SchedConn
               /\ txn' = [NoTxn EXCEPT !.ins_jobs = rows]
               /\ jobs' = Uncommitted(jobs, rows)
               /\ Sched([sched EXCEPT !.pc = "move_delete"])
    /\ UNCHANGED <<job_queue, term_queue, seq, hostVars, running, created, wk,
                   nreq, mon, replies, started, notices, ghostVars>>

\* get_next_job: DELETE FROM job_queue WHERE id=?
SchedMoveDelete ==
    /\ sched.pc = "move_delete"
    /\ txn' = [txn EXCEPT !.del_queue = {sched.job.id}]
    /\ Sched([sched EXCEPT !.pc = "move_commit"])
    /\ UNCHANGED <<job_queue, jobs, term_queue, seq, lock, hostVars, running,
                   created, wk, nreq, mon, replies, started, notices,
                   ghostVars>>

\* get_next_job: self.db.commit()
SchedMoveCommit ==
    /\ sched.pc = "move_commit"
    /\ Commit
    /\ Sched([sched EXCEPT !.pc = "map_ports"])
    /\ UNCHANGED <<hostVars, running, created, wk, nreq, mon, replies, started,
                   notices, ghostVars>>

\* start_job: ports_dict = self.map_ports(job[6]), first and after a failed
\* start
SchedMapPorts ==
    /\ sched.pc \in {"map_ports", "remap"}
    /\ \E m \in MapPorts(sched.job.ports, running) :
          Sched([sched EXCEPT !.ports_dict = m,
                    !.used_ports = UsedPorts(running),
                    !.pc = IF sched.pc = "map_ports" THEN "connect"
                           ELSE "run2"])
    /\ UNCHANGED <<dbVars, hostVars, running, created, wk, nreq, mon, replies,
                   started, notices, ghostVars>>

\* start_job: conn.connect((job[2], job[3])); an unreachable client raises
\* an error nothing catches, which ends the thread
SchedConnect ==
    /\ sched.pc = "connect"
    /\ \E reachable \in BOOLEAN :
          IF reachable
          THEN Sched([sched EXCEPT !.pc = "run1", !.used_ports = {}])
          ELSE Crash
    /\ UNCHANGED <<dbVars, hostVars, running, created, wk, nreq, mon, replies,
                   started, notices, ghostVars>>

\* start_container returned None: the first time start_job maps the ports
\* again and tries once more, the second time it gives the job up
AfterFailedRun ==
    IF sched.pc = "run1" THEN [sched EXCEPT !.pc = "remap", !.used_ports = {}]
    ELSE IdleSched

\* start_container: containers.run(name=str(job_id), ports=ports) creates
\* the container and starts it; docker.errors.APIError gives None
SchedRun ==
    /\ sched.pc \in {"run1", "run2"}
    /\ LET name == PyStr(sched.job.id)
           c == [name |-> name, ports |-> sched.ports_dict]
       IN IF name \in Names(running) \cup created
          THEN \* the name is taken: create fails
               /\ Sched(AfterFailedRun)
               /\ UNCHANGED <<running, created, launched>>
          ELSE \/ \* the runtime refuses to create the container
                  /\ Sched(AfterFailedRun)
                  /\ UNCHANGED <<running, created, launched>>
               \/ \* created, but a binding fails: it stays, not running
                  /\ created' = created \cup {name}
                  /\ Sched(AfterFailedRun)
                  /\ UNCHANGED <<running, launched>>
               \/ \* created and started
                  /\ Bindable(sched.ports_dict, running)
                  /\ running' = running \cup {c}
                  /\ launched' = launched \cup {name}
                  /\ Sched([sched EXCEPT !.pc = "notify", !.used_ports = {},
                                         !.launches = @ + 1])
                  /\ UNCHANGED created
    /\ UNCHANGED <<dbVars, hostVars, wk, nreq, mon, replies, started, notices,
                   admitted, removed>>

\* notify_client: send Started; get_ssh_key: read the client's key
SchedNotify ==
    /\ sched.pc = "notify"
    /\ started' = started \cup {sched.job.id}
    /\ Sched([sched EXCEPT !.pc = "setup_ssh", !.ports_dict = <<>>])
    /\ UNCHANGED <<dbVars, hostVars, running, created, wk, nreq, mon, replies,
                   notices, ghostVars>>

\* setup_ssh: put_archive and exec_run on the container; if it has been
\* stopped meanwhile the runtime's error ends the thread
SchedSetupSsh ==
    /\ sched.pc = "setup_ssh"
    /\ IF PyStr(sched.job.id) \in Names(running) THEN Sched(IdleSched)
       ELSE Crash
    /\ UNCHANGED <<dbVars, hostVars, running, created, wk, nreq, mon, replies,
                   started, notices, ghostVars>>

SchedStep ==
    \/ SchedList
    \/ SchedGate
    \/ SchedSelect
    \/ SchedMoveInsert
    \/ SchedMoveDelete
    \/ SchedMoveCommit
    \/ SchedMapPorts
    \/ SchedConnect
    \/ SchedRun
    \/ SchedNotify
    \/ SchedSetupSsh

\* --------------------------------------------------- Monitor.py: Monitor
Mon(r) == mon' = r
MonCrash == Mon([IdleMon EXCEPT !.pc = "crashed"])

\* run's local variable idle keeps its value from one cycle to the next;
\* it is unbound (assigned = FALSE) until a scan has completed
MonLoop == [IdleMon EXCEPT !.assigned = mon.assigned, !.idle = mon.idle]

\* the rows of a table in rowid order
RECURSIVE TermRows(_)
TermRows(tq) ==
    IF tq = {} THEN <<>>
    ELSE LET r == CHOOSE x \in tq : \A y \in tq : x.job_id <= y.job_id
         IN <<r>> \o TermRows(tq \ {r})

\* psutil.cpu_count()
Cores == 1

\* get_cpu_stats: <<total_usage, system_cpu_usage>> of a container, as the
\* first sample finds them and as the second may find them 10 seconds later
FirstStats == <<0, 0>>
CpuStats == {<<0, 100>>, <<1, 100>>, <<10, 100>>}

\* calculate_percentages: a percentage is kept as <<numerator, divisor>>
calculate_percentages(current, previous) ==
    [i \in DOMAIN current |->
        IF i \in DOMAIN previous
        THEN LET total_delta == current[i][1] - previous[i][1]
                 system_delta == current[i][2] - previous[i][2]
             IN IF total_delta > 0 /\ system_delta > 0
                THEN <<total_delta * 100 * Cores, system_delta>>
                ELSE <<0, 1>>
        ELSE <<100, 1>>]

\* check_for_idle_containers: percentages[i] < 10.0
check_for_idle_containers(current, previous) ==
    LET percentages == calculate_percentages(current, previous) IN
    {i \in DOMAIN percentages :
        percentages[i][1] < 10 * percentages[i][2]}

\* run: the two-minute timeout has passed; get_cpu_stats, sleep(10),
\* get_cpu_stats, check_for_idle_containers.  A sample holds the containers
\* that have run for over a minute, keyed by int(container.name).  A
\* docker.errors.APIError in either sample is caught and leaves idle as it
\* was
MonScan ==
    /\ mon.pc = "loop"
    /\ \/ \E C \in SUBSET {n[2] : n \in Names(running)} :
             \E P \in SUBSET C, current \in [C -> CpuStats] :
                LET previous == [i \in P |-> FirstStats] IN
                Mon([IdleMon EXCEPT
                       !.pc = "queue_idle",
                       !.previous = previous,
                       !.current = current,
                       !.assigned = TRUE,
                       !.idle = check_for_idle_containers(current, previous)])
       \/ Mon([MonLoop EXCEPT !.pc = "queue_idle", !.api_error = TRUE])
    /\ UNCHANGED <<dbVars, hostVars, running, created, wk, nreq, sched, replies,
                   started, notices, ghostVars>>

\* run: if len(idle) > 0, which raises UnboundLocalError while idle is
\* unbound.  queue_for_termination: INSERT INTO term_queue for each idle
\* container, then commit; a container already queued raises
\* sqlite3.IntegrityError, which ends the thread with its transaction open
MonQueueIdle ==
    /\ mon.pc = "queue_idle"
    /\ IF ~mon.assigned
       THEN /\ MonCrash
            /\ UNCHANGED <<term_queue, lock>>
       ELSE IF mon.idle = {}
       THEN /\ Mon([MonLoop EXCEPT !.pc = "drain"])
            /\ UNCHANGED <<term_queue, lock>>
       ELSE /\ lock = NoConn
            /\ IF mon.idle \cap TermIds(term_queue) # {}
               THEN /\ MonCrash
                    /\ lock' = MonConn
                    /\ UNCHANGED term_queue
               ELSE /\ term_queue' = term_queue \cup
                          {[job_id |-> c, reason |-> "Container Idle"] :
                              c \in mon.idle}
                    /\ Mon([MonLoop EXCEPT !.pc = "drain"])
                    /\ UNCHANGED lock
    /\ UNCHANGED <<job_queue, jobs, seq, txn, hostVars, running, created, wk, nreq,
                   sched, replies, started, notices, ghostVars>>

\* terminate_jobs: SELECT * FROM term_queue
MonRead ==
    /\ mon.pc \in {"loop", "drain"}
    /\ Mon(IF term_queue = {} THEN MonLoop
           ELSE [MonLoop EXCEPT !.pc = "stop",
                                !.containers = TermRows(term_queue)])
    /\ UNCHANGED <<dbVars, hostVars, running, created, wk, nreq, sched, replies,
                   started, notices, ghostVars>>

\* terminate_jobs: containers.get(str(c[0])); if it exists stop it and
\* remove it; NotFound is caught
MonStop ==
    /\ mon.pc = "stop"
    /\ LET name == PyStr(Head(mon.containers).job_id) IN
          /\ Mon([mon EXCEPT !.pc = "delete",
                     !.container = name \in Names(running) \cup created])
          /\ running' = {c \in running : c.name # name}
          /\ created' = created \ {name}
    /\ UNCHANGED <<dbVars, hostVars, wk, nreq, sched, replies, started, notices,
                   ghostVars>>

\* terminate_jobs: after a row, the next one, or back to run's loop
MonNext == IF Len(mon.containers) > 1
           THEN [mon EXCEPT !.pc = "stop", !.containers = Tail(@),
                            !.container = FALSE]
           ELSE MonLoop

\* terminate_jobs: DELETE FROM term_queue WHERE job_id=?; commit
MonDelete ==
    /\ mon.pc = "delete"
    /\ lock = NoConn
    /\ term_queue' = {r \in term_queue :
                         r.job_id # Head(mon.containers).job_id}
    /\ Mon(IF mon.container THEN [mon EXCEPT !.pc = "notify"] ELSE MonNext)
    /\ UNCHANGED <<job_queue, jobs, seq, lock, txn, hostVars, running, created, wk,
                   nreq, sched, replies, started, notices, ghostVars>>

\* notify_client: SELECT * FROM jobs WHERE id=?; connect; send Terminated.
\* job[1] of no row raises TypeError and an unreachable client raises an
\* error nothing catches: either ends the thread
MonNotify ==
    /\ mon.pc = "notify"
    /\ LET c == Head(mon.containers) IN
          \E reachable \in BOOLEAN :
             IF c.job_id \in Ids(jobs) /\ reachable
             THEN /\ notices' = notices \cup {c}
                  /\ Mon(MonNext)
             ELSE /\ MonCrash
                  /\ UNCHANGED notices
    /\ UNCHANGED <<dbVars, hostVars, running, created, wk, nreq, sched, replies,
                   started, ghostVars>>

MonStep ==
    \/ MonScan
    \/ MonQueueIdle
    \/ MonRead
    \/ MonStop
    \/ MonDelete
    \/ MonNotify

Next ==
    \/ \E w \in Workers : WorkerStep(w)
    \/ SchedStep
    \/ MonStep

Spec == Init /\ [][Next]_vars

\* ------------------------------------------------- dispatch after admission
\* The state after MaxRequests New Job requests have been admitted and
\* answered, the jobs asking for port 80 or for the ssh port alone; from it
\* the Scheduler and the Monitor run on their own.
AdmittedRow(i, ps) == [NoRow EXCEPT !.id = FIRST_SEQ + i, !.cust_name = "A",
                                    !.priority = 1, !.ports = ps]

InitDispatch ==
    /\ \E f \in [1..MaxRequests -> {<<"80">>, <<"22">>}] :
          job_queue = {AdmittedRow(i, f[i]) : i \in 1..MaxRequests}
    /\ jobs = {}
    /\ term_queue = {}
    /\ seq = FIRST_SEQ + MaxRequests
    /\ lock = NoConn
    /\ txn = NoTxn
    /\ now = 0
    /\ strategy = 0
    /\ stopRequest = FALSE
    /\ joiner = NoJoin
    /\ running = {}
    /\ created = {}
    /\ wk = [w \in Workers |-> IdleWorker]
    /\ nreq = MaxRequests
    /\ sched = IdleSched
    /\ mon = IdleMon
    /\ replies = {[NoReply EXCEPT !.Msg = "Accepted", !.RequestType = "Start",
                                  !.JobID = FIRST_SEQ + i] :
                     i \in 1..MaxRequests}
    /\ started = {}
    /\ notices = {}
    /\ admitted = [i \in 1..MaxRequests |-> FIRST_SEQ + i]
    /\ launched = {}
    /\ removed = {}

NextDispatch ==
    \/ SchedStep
    \/ MonStep

SpecDispatch == InitDispatch /\ [][NextDispatch]_vars

\* ------------------------------------------------------------- shutdown
\* Scheduler.join, called by a thread of the embedding program while the
\* Scheduler thread and the Monitor thread run.
Join(r) == joiner' = r

\* join: self.stopRequest.set()
JoinSet ==
    /\ joiner.pc = "idle"
    /\ stopRequest' = TRUE
    /\ Join([joiner EXCEPT !.pc = "stop_all"])
    /\ UNCHANGED <<dbVars, now, strategy, running, created, wk, nreq, sched,
                   mon, replies, started, notices, ghostVars>>

\* stop_all_containers: while len(self.dockr.containers.list()) > 0
JoinList ==
    /\ joiner.pc = "stop_all"
    /\ Join([joiner EXCEPT !.pc = IF running # {} THEN "pick" ELSE "prune"])
    /\ UNCHANGED <<dbVars, now, strategy, stopRequest, running, created, wk,
                   nreq, sched, mon, replies, started, notices, ghostVars>>

\* stop_all_containers: container = self.dockr.containers.list()[0]; the
\* list is read anew and [0] of an empty list raises IndexError
JoinPick ==
    /\ joiner.pc = "pick"
    /\ IF running = {} THEN Join([NoJoin EXCEPT !.pc = "crashed"])
       ELSE \E c \in running :
               Join([joiner EXCEPT !.pc = "stop", !.container = c.name])
    /\ UNCHANGED <<dbVars, now, strategy, stopRequest, running, created, wk,
                   nreq, sched, mon, replies, started, notices, ghostVars>>

\* stop_all_containers: container.stop(); the stopped container stays until
\* it is removed.  Stopping a container that has been removed meanwhile
\* raises docker.errors.NotFound
JoinStop ==
    /\ joiner.pc = "stop"
    /\ IF joiner.container \in Names(running) \cup created
       THEN /\ running' = {c \in running : c.name # joiner.container}
            /\ created' = created \cup {joiner.container}
            /\ Join([NoJoin EXCEPT !.pc = "stop_all"])
       ELSE /\ Join([NoJoin EXCEPT !.pc = "crashed"])
            /\ UNCHANGED <<running, created>>
    /\ UNCHANGED <<dbVars, now, strategy, stopRequest, wk, nreq, sched, mon,
                   replies, started, notices, ghostVars>>

\* join: self.dockr.containers.prune() removes the containers that do not
\* run; super().join(timeout) then waits for the Scheduler thread
JoinPrune ==
    /\ joiner.pc = "prune"
    /\ created' = {}
    /\ Join([NoJoin EXCEPT !.pc = "pruned"])
    /\ UNCHANGED <<dbVars, now, strategy, stopRequest, running, wk, nreq,
                   sched, mon, replies, started, notices, ghostVars>>

JoinStep ==
    \/ JoinSet
    \/ JoinList
    \/ JoinPick
    \/ JoinStop
    \/ JoinPrune

NextJoin ==
    \/ SchedStep
    \/ MonStep
    \/ JoinStep

\* the jobs admitted ask for the ssh port alone
InitJoin == InitDispatch /\ \A r \in job_queue : r.ports = <<"22">>

SpecJoin == InitJoin /\ [][NextJoin]_vars

\* -------------------------------------------------------------- progress
\* The state after two New Job requests have been admitted and answered,
\* with one request still to come; the threads are scheduled again and
\* again.
InitLive ==
    /\ job_queue = {AdmittedRow(i, <<"22">>) : i \in 1..2}
    /\ jobs = {}
    /\ term_queue = {}
    /\ seq = FIRST_SEQ + 2
    /\ lock = NoConn
    /\ txn = NoTxn
    /\ now = 0
    /\ strategy = 0
    /\ stopRequest = FALSE
    /\ joiner = NoJoin
    /\ running = {}
    /\ created = {}
    /\ wk = [w \in Workers |-> IdleWorker]
    /\ nreq = MaxRequests - 1
    /\ sched = IdleSched
    /\ mon = IdleMon
    /\ replies = {[NoReply EXCEPT !.Msg = "Accepted", !.RequestType = "Start",
                                  !.JobID = FIRST_SEQ + i] : i \in 1..2}
    /\ started = {}
    /\ notices = {}
    /\ admitted = [i \in 1..2 |-> FIRST_SEQ + i]
    /\ launched = {}
    /\ removed = {}

\* a request thread that has received its request runs to its end
WorkerRun(w) == WorkerStep(w) /\ wk[w].pc # "idle"

\* run: the gate passes (check_resource() finds the host's resources free)
GatePasses == SchedGate /\ sched'.pc = "select"

\* every thread that can take a step is scheduled, and the host's resources
\* are free again and again
Fairness ==
    /\ \A w \in Workers : WF_vars(WorkerRun(w))
    /\ WF_vars(SchedStep)
    /\ WF_vars(MonStep)
    /\ SF_vars(GatePasses)

SpecLive == InitLive /\ [][Next]_vars /\ Fairness

\* ---------------------------------------------------- selection of a job
\* The store as a run of the service has left it: history rows, some of
\* them older than the 7-day window, and waiting rows, the ids and the
\* timestamps in the order of admission; the Scheduler, under any strategy,
\* selects the next job and moves it to history.
MaxHistory == 2
MaxWaiting == 2
Today == 8
SelClients == {"A", "B"}
SelPriorities == {1, 2, 3}
HistoryTimes == {Today - Window - 1, Today - Window}
WaitingTimes == {Today - 1, Today}

SeqsUpTo(S, n) == UNION {[1..k -> S] : k \in 0..n}
Monotone(f) == \A i, j \in DOMAIN f : i < j => f[i][3] <= f[j][3]

\* the rows INSERT INTO job_queue gives for a sequence of <<client,
\* priority, time>>, the ids following base
RowsOf(f, base) ==
    {[id |-> base + i, cust_name |-> f[i][1], priority |-> f[i][2],
      timestamp |-> f[i][3], ports |-> <<"22">>] : i \in DOMAIN f}

InitStore(h, w, s) ==
    /\ jobs = RowsOf(h, FIRST_SEQ)
    /\ job_queue = RowsOf(w, FIRST_SEQ + Len(h))
    /\ term_queue = {}
    /\ seq = FIRST_SEQ + Len(h) + Len(w)
    /\ lock = NoConn
    /\ txn = NoTxn
    /\ now = Today
    /\ strategy = s
    /\ stopRequest = FALSE
    /\ joiner = NoJoin
    /\ running = {}
    /\ created = {}
    /\ wk = [x \in Workers |-> IdleWorker]
    /\ nreq = Len(h) + Len(w)
    /\ sched = IdleSched
    /\ mon = IdleMon
    /\ replies = {[NoReply EXCEPT !.Msg = "Accepted", !.RequestType = "Start",
                                  !.JobID = FIRST_SEQ + i] :
                     i \in 1..(Len(h) + Len(w))}
    /\ started = {FIRST_SEQ + i : i \in 1..Len(h)}
    /\ notices = {}
    /\ admitted = [i \in 1..(Len(h) + Len(w)) |-> FIRST_SEQ + i]
    /\ launched = {PyStr(FIRST_SEQ + i) : i \in 1..Len(h)}
    /\ removed = {}

InitBounded ==
    \E h \in SeqsUpTo(SelClients \X SelPriorities \X HistoryTimes, MaxHistory),
       w \in SeqsUpTo(SelClients \X SelPriorities \X WaitingTimes, MaxWaiting),
       s \in 0..3 :
        /\ Monotone(h)
        /\ Monotone(w)
        /\ w # <<>>
        /\ InitStore(h, w, s)

\* strategy 2 after five jobs of priority 3, four of priority 2 and one of
\* priority 1 in the window, a job of each priority waiting
Repeat(x, n) == [i \in 1..n |-> x]
InitFairness2 ==
    InitStore(Repeat(<<"A", 3, Today>>, 5) \o Repeat(<<"A", 2, Today>>, 4)
                  \o Repeat(<<"A", 1, Today>>, 1),
              <<<<"A", 3, Today>>, <<"A", 2, Today>>, <<"A", 1, Today>>>>, 2)

\* strategy 1 after five jobs of client A, two of B and three of C in the
\* window, a job of each client waiting
InitFairness1 ==
    InitStore(Repeat(<<"A", 1, Today>>, 5) \o Repeat(<<"B", 1, Today>>, 2)
                  \o Repeat(<<"C", 1, Today>>, 3),
              <<<<"A", 1, Today>>, <<"B", 1, Today>>, <<"C", 1, Today>>>>, 1)

InitSelect ==
    \/ InitBounded
    \/ InitFairness2
    \/ InitFairness1

\* run -> start_job, up to the commit of the move
NextSelect ==
    \/ SchedList
    \/ SchedGate
    \/ SchedNextPriority
    \/ SchedNextClient
    \/ SchedSelect
    \/ SchedMoveInsert
    \/ SchedMoveDelete
    \/ SchedMoveCommit

SpecSelect == InitSelect /\ [][NextSelect]_vars

\* ------------------------------------------------------ the request handler
\* The request handler alone, receiving well-formed and malformed requests.
NextRequests == \E w \in Workers : WorkerStep(w) \/ InvalidStep(w)

SpecRequests == Init /\ [][NextRequests]_vars

\* ------------------------------------------------------------------ claims
TerminatedReply(j) == [NoReply EXCEPT !.Msg = "Terminated", !.JobID = j,
                                      !.Reason = "Termination Requested"]
AcceptedStart(j) == [NoReply EXCEPT !.Msg = "Accepted",
                                    !.RequestType = "Start", !.JobID = j]
Dispatching == sched.pc \in {"select", "select_client", "select_job",
                             "move_insert", "move_delete", "move_commit",
                             "map_ports", "connect", "run1", "remap", "run2",
                             "notify", "setup_ssh"}
Injective(f) == \A a, b \in DOMAIN f : a # b => f[a] # f[b]

\* C1: a job whose waiting row a Terminate request has deleted is answered
\* with Terminated / 'Termination Requested' and no container of its name
\* is ever launched.
C1_TerminatedWaitingJobNeverLaunched ==
    \A j \in removed :
        /\ TerminatedReply(j) \in replies
        /\ PyStr(j) \notin launched

\* C2: the name of every running container is the string form of the id of
\* a row of the history table.
C2_RunningContainersAreHistoryJobs ==
    \A c \in running : \E r \in jobs : c.name = PyStr(r.id)

\* C3: a job for which Started has been sent has its row in history and
\* none in the waiting queue.
C3_StartedJobIsInHistory ==
    \A j \in started : j \in Ids(jobs) /\ j \notin Ids(job_queue)

\* C4: the waiting queue never holds more than MAX_QUEUE + 1 rows.
C4_QueueAtMostMaxQueuePlusOne ==
    Cardinality(job_queue) <= MAX_QUEUE + 1

\* C5: a New Job request that finds exactly MAX_QUEUE waiting rows is
\* refused and inserts nothing.
C5_RefusedAtMaxQueue ==
    \A w \in Workers :
        (wk[w].kind = "New Job" /\ wk[w].q_len = MAX_QUEUE)
            => wk[w].pc = "nj_refuse"

\* C6: at most MAX_JOBS containers run; the Scheduler dispatches only in an
\* iteration in which it counted fewer than MAX_JOBS running containers, and
\* starts at most one container in it.
C6_AtMostMaxJobsRunning ==
    /\ Cardinality(running) <= MAX_JOBS
    /\ Dispatching => sched.currentJobs < MAX_JOBS
    /\ sched.launches <= 1

\* C6 witness: MAX_JOBS containers run while a job waits and the Scheduler
\* is at its gate.
C6_Witness ==
    /\ Cardinality(running) = MAX_JOBS
    /\ job_queue # {}
    /\ sched.pc = "gate"
    /\ sched.currentJobs = MAX_JOBS

\* C7: the host ports bound by running containers are pairwise distinct,
\* within one container and across containers, and lie in
\* [PORT_RANGE_LOWER, PORT_RANGE_UPPER].
C7_BoundPortsDisjointInRange ==
    /\ \A c \in running : Injective(c.ports) /\ Bound(c) \subseteq HostPorts
    /\ \A c, d \in running : c # d => Bound(c) \cap Bound(d) = {}

\* C7 witness: two containers run, one of them with two bindings.
C7_Witness ==
    /\ Cardinality(running) = 2
    /\ \E c \in running : Cardinality(DOMAIN c.ports) = 2

\* C8: for a job asking for k ports (none of them 22) map_ports returns
\* k + 1 entries whose host ports are pairwise distinct and bound by no
\* container that ran when they were allocated.
C8_MapPortsDistinctAndFree ==
    (sched.pc \in {"connect", "run2"} /\ "22" \notin Range(sched.job.ports))
        => /\ Cardinality(DOMAIN sched.ports_dict) = Len(sched.job.ports) + 1
           /\ Injective(sched.ports_dict)
           /\ \A k \in DOMAIN sched.ports_dict :
                 \A u \in sched.used_ports : sched.ports_dict[k][2] # u[2]

\* C9: in the committed database no job id is both in the waiting queue
\* and in history.
C9_WaitingAndHistoryDisjoint ==
    Ids(job_queue) \cap Ids(jobs) = {}

\* C9 witness: the Scheduler has committed the move of a job, which is now
\* in history only.
C9_Witness ==
    /\ sched.pc = "map_ports"
    /\ sched.job \in jobs
    /\ sched.job \notin job_queue

\* C10: the ids given to admitted jobs are at least 1000 and strictly
\* increasing in admission order, and every Accepted reply carries the id
\* of its own admission.
C10_IdsIncreasing ==
    /\ \A i \in 1..Len(admitted) : admitted[i] >= 1000
    /\ \A i, j \in 1..Len(admitted) : i < j => admitted[i] < admitted[j]
    /\ \A m \in replies :
          (m.Msg = "Accepted" /\ m.RequestType = "Start")
              => \E i \in 1..Len(admitted) : admitted[i] = m.JobID
    /\ \A w \in Workers :
          wk[w].pc = "nj_reply"
              => /\ wk[w].job_id \in Range(admitted)
                 /\ AcceptedStart(wk[w].job_id) \notin replies

\* C10 witness: a job is admitted and answered after every earlier job has
\* left the waiting queue.
C10_Witness ==
    /\ Len(admitted) >= 2
    /\ Ids(job_queue) = {admitted[Len(admitted)]}
    /\ AcceptedStart(admitted[Len(admitted)]) \in replies

\* C11: on a fresh store the first admitted New Job gets job id exactly
\* 1000.
C11_FirstIdIs1000 ==
    Len(admitted) >= 1 => admitted[1] = 1000

\* C12: handling a Terminate request for job J has exactly one of two
\* effects: J's waiting row is deleted and the reply is Terminated, or a
\* term_queue row for J is inserted and the reply is Accepted; Terminated is
\* replied only after a waiting row was deleted, and the request never ends
\* with neither effect.
C12_TerminateExactlyOneEffect ==
    \A w \in Workers :
        wk[w].kind = "Terminate" =>
            /\ wk[w].pc = "t_reply_term" => wk[w].ndel > 0
            /\ wk[w].pc = "t_commit" =>
                   (wk[w].ndel > 0) # (wk[w].job_id \in TermIds(txn.ins_term))
            /\ wk[w].pc # "t_retry"

\* the state of the strategy-2 example: the window holds 5, 4 and 1 jobs of
\* priorities 3, 2 and 1, one job of each priority waits, and
\* get_next_priority has returned
Recent == {r \in jobs : r.timestamp + 7 >= now}
WindowCount(p) == Cardinality({r \in Recent : r.priority = p})
Fairness2Chosen ==
    /\ strategy = 2
    /\ sched.pc = "select_job"
    /\ WindowCount(3) = 5 /\ WindowCount(2) = 4 /\ WindowCount(1) = 1
    /\ \A p \in {1, 2, 3} :
          Cardinality({r \in job_queue : r.priority = p}) = 1

\* C13 as stated: in the strategy-2 example (counts {3:5, 2:4, 1:1}, one
\* waiting job of each priority) get_next_priority chooses priority 2.
C13_ExampleChoosesPriority2 ==
    Fairness2Chosen => sched.next_priority = 2

\* C13 amended: in that example get_next_priority chooses priority 1, the
\* only priority whose frequency (0.10) is below its weight (0.15).
C13_ExampleChoosesPriority1 ==
    Fairness2Chosen => sched.next_priority = 1

\* C13 witness: the example has been run.
C13_Witness ==
    Fairness2Chosen /\ sched.next_priority = 1

\* get_next_priority has returned and nothing has been moved yet
PriorityChosen ==
    \/ strategy = 2 /\ sched.pc = "select_job"
    \/ strategy = 3 /\ sched.pc = "select_client"
WaitingPriorities == {r.priority : r \in job_queue}
\* f(p) < weight(p), f(p) being count_p / total, or 0 when either is 0, and
\* the weights 0.50, 0.35 and 0.15
UnderWeight(p) ==
    LET total == Cardinality(Recent)
        hundredths == IF p = 3 THEN 50 ELSE IF p = 2 THEN 35 ELSE 15
    IN \/ WindowCount(p) = 0
       \/ total = 0
       \/ WindowCount(p) * 100 < hundredths * total

\* C14: the priority get_next_priority returns has a waiting row: it is the
\* highest waiting priority whose 7-day frequency is strictly below its
\* weight or, when there is none, the highest waiting priority.
C14_SelectPriorityRule ==
    PriorityChosen =>
        /\ sched.next_priority \in WaitingPriorities
        /\ LET under == {p \in WaitingPriorities : UnderWeight(p)} IN
              sched.next_priority = IF under # {} THEN SetMax(under)
                                    ELSE SetMax(WaitingPriorities)

\* C14 witness: the highest waiting priority is at or over its weight and a
\* lower one is chosen.
C14_Witness ==
    /\ PriorityChosen
    /\ sched.next_priority < SetMax(WaitingPriorities)

\* a job has been selected and nothing has been moved yet
JobChosen == sched.pc = "move_insert"
ClientCount(c) == Cardinality({r \in Recent : r.cust_name = c})
OldestOf(rows) == \A o \in rows : sched.job.timestamp <= o.timestamp
Fairness1Example ==
    /\ ClientCount("A") = 5 /\ ClientCount("B") = 2 /\ ClientCount("C") = 3
    /\ {r.cust_name : r \in job_queue} = {"A", "B", "C"}
    /\ Cardinality(job_queue) = 3

\* C15: under strategy 1 the job selected belongs to a waiting client with
\* the fewest history rows of the last 7 days among the waiting clients, and
\* is that client's oldest waiting row; with history {A:5, B:2, C:3} and a
\* job of each waiting it is B's.
C15_FairByClient ==
    (strategy = 1 /\ JobChosen) =>
        /\ sched.job \in job_queue
        /\ \A r \in job_queue :
              ClientCount(sched.job.cust_name) <= ClientCount(r.cust_name)
        /\ OldestOf({r \in job_queue : r.cust_name = sched.job.cust_name})
        /\ Fairness1Example => sched.job.cust_name = "B"

\* C15 witness: in the example B's job is selected.
C15_Witness ==
    /\ strategy = 1
    /\ JobChosen
    /\ Fairness1Example
    /\ sched.job.cust_name = "B"

ClientCountAt(c, p) ==
    Cardinality({r \in Recent : r.cust_name = c /\ r.priority = p})

\* C16: under strategy 3 the job selected has the priority get_next_priority
\* returned (the one C14's rule gives), belongs to a client with the fewest
\* history rows of that priority in the last 7 days among the clients
\* waiting at that priority, and is that client's oldest waiting row of
\* that priority.
C16_PriorityThenFairByClient ==
    (strategy = 3 /\ JobChosen) =>
        LET p == sched.job.priority
            c == sched.job.cust_name
            under == {x \in WaitingPriorities : UnderWeight(x)}
        IN /\ sched.job \in job_queue
           /\ p = sched.next_priority
           /\ p = IF under # {} THEN SetMax(under)
                  ELSE SetMax(WaitingPriorities)
           /\ \A r \in job_queue :
                 r.priority = p
                     => ClientCountAt(c, p) <= ClientCountAt(r.cust_name, p)
           /\ OldestOf({r \in job_queue : r.cust_name = c /\ r.priority = p})

\* C16 witness: another client waits at the selected priority and has more
\* history rows of that priority.
C16_Witness ==
    /\ strategy = 3
    /\ JobChosen
    /\ \E r \in job_queue :
          /\ r.priority = sched.job.priority
          /\ ClientCountAt(r.cust_name, r.priority)
                 > ClientCountAt(sched.job.cust_name, r.priority)

\* C17: under strategy 0 the row a dispatch selects has the least timestamp
\* of all the rows waiting at the selection, whatever its client and
\* priority, and no other row is moved to history by that dispatch.
C17_FifoOldestFirst ==
    [][strategy = 0 =>
          /\ (sched.pc = "select" /\ sched'.pc = "move_insert") =>
                 /\ sched'.job \in job_queue
                 /\ \A o \in job_queue :
                       sched'.job.timestamp <= o.timestamp
          /\ (sched.pc = "move_commit" /\ sched'.pc = "map_ports") =>
                 /\ jobs' \ jobs \subseteq {sched.job}
                 /\ job_queue \ job_queue' \subseteq {sched.job}]_vars

\* C17 witness: the oldest row is being moved although a newer row of a
\* higher priority and another client waits.
C17_Witness ==
    /\ strategy = 0
    /\ sched.pc = "move_commit"
    /\ txn.ins_jobs = {sched.job}
    /\ \E r \in job_queue :
          /\ r.timestamp > sched.job.timestamp
          /\ r.priority > sched.job.priority
          /\ r.cust_name # sched.job.cust_name

\* the rows among which the strategy's last SELECT chooses
CandidateRows ==
    {r \in job_queue :
        /\ strategy \in {1, 3} => r.cust_name = sched.next_client
        /\ strategy \in {2, 3} => r.priority = sched.next_priority}

Under10Percent(i) ==
    LET dt == mon.current[i][1] - mon.previous[i][1]
        ds == mon.current[i][2] - mon.previous[i][2]
    IN (dt > 0 /\ ds > 0) => dt * 100 * Cores < 10 * ds
IdleRow(i) == [job_id |-> i, reason |-> "Container Idle"]

\* C19: when the Monitor has queued the result of a scan, every container
\* of both samples whose CPU share was under 10 percent has a term_queue
\* row with reason 'Container Idle', and no other sampled container has.
C19_IdleContainersQueued ==
    [][(mon.pc = "queue_idle" /\ mon'.pc # "queue_idle") =>
          \A i \in DOMAIN mon.current :
              IdleRow(i) \in term_queue'
                  <=> (i \in DOMAIN mon.previous /\ Under10Percent(i))]_vars

\* C20: every term_queue row names a job id that has a row in job_queue or
\* in jobs.
C20_TermRowsReferenceJobs ==
    \A r \in term_queue : r.job_id \in Ids(job_queue) \cup Ids(jobs)


InvalidReply == [NoReply EXCEPT !.Msg = "Refused",
                                !.Reason = "The request message was invalid"]

\* C21: when the handling of a payload that is not a well-formed New Job or
\* Terminate request ends, the reply Refused / 'The request message was
\* invalid' has been sent, and no step of that handling changes job_queue,
\* jobs or term_queue.
C21_InvalidPayloadRefused ==
    [][\A w \in Workers :
          (wk[w].kind \in Payloads /\ wk'[w] # wk[w]) =>
              /\ wk'[w].pc = "idle" => InvalidReply \in replies'
              /\ UNCHANGED <<job_queue, jobs, term_queue>>]_vars

\* C22: no step removes or changes a row of history, and a row that a step
\* adds to history is, field for field, a row of the waiting queue as it
\* was before the step.
C22_HistoryAppendOnlyPureMove ==
    [][/\ jobs \subseteq jobs'
       /\ jobs' \ jobs \subseteq job_queue]_vars

\* C22 witness: two jobs have been moved to history, the second while the
\* first one's container runs.
C22_Witness ==
    /\ Cardinality(jobs) = 2
    /\ \E r \in jobs : PyStr(r.id) \in Names(running)
    /\ sched.pc = "map_ports"

\* the calls of start_container made for the job so far, the one at hand
\* included: the first is made at "run1", the next at "run2"
RunNumber == IF sched.pc = "run1" THEN 1 ELSE 2
\* a call of start_container has returned None
RunFailed == sched.pc \in {"run1", "run2"} /\ sched'.pc # "notify"
\* start_job gives the job up
Abandoned == RunFailed /\ sched'.pc = "loop"

\* C23: after the first failed Run the scheduler runs again with the same
\* port map, and a job is given up only when its third Run has failed.
C23_AbandonedAfterThreeRuns ==
    [][/\ (RunFailed /\ RunNumber = 1) =>
              /\ sched'.pc \in {"run1", "run2"}
              /\ sched'.ports_dict = sched.ports_dict
       /\ Abandoned => RunNumber = 3]_vars

\* C24: when start_job gives a job up, the job's row is in history and not
\* in the waiting queue, no Started notification has been sent for it, no
\* container bears its name, and the Scheduler is back at the top of its
\* loop.
C24_AbandonedJobLeavesNothing ==
    [][Abandoned =>
          /\ sched.job \in jobs'
          /\ sched.job.id \notin Ids(job_queue')
          /\ sched.job.id \notin started'
          /\ PyStr(sched.job.id) \notin Names(running') \cup created'
          /\ sched'.pc = "loop"]_vars

\* the termination-queue row the Monitor is handling
TermRow == Head(mon.containers)

\* C25: for every term_queue row a drain has read, the container named by
\* the row's job id is gone once the Monitor has looked it up (stopped and
\* removed if it existed), the row is then deleted whether or not the
\* container existed, and the Terminated notification with the row's reason
\* is sent exactly when the container existed, in a step that follows the
\* committed deletion.
C25_DrainStopsDeletesNotifies ==
    [][mon' # mon =>
          /\ mon.pc = "stop" =>
                 PyStr(TermRow.job_id) \notin Names(running') \cup created'
          /\ mon.pc = "delete" =>
                 /\ TermRow.job_id \notin TermIds(term_queue')
                 /\ mon'.pc = "notify" <=> mon.container
          /\ mon.pc = "notify" => TermRow \in notices'
          /\ mon.pc # "notify" => notices' = notices]_vars

\* C26: the step in which the Scheduler connects to the client of the job
\* it has moved to history, and the step in which the Monitor connects to
\* the client of a job in history whose container it has stopped, leave the
\* three tables as they are and do not end the thread, whether or not the
\* client can be reached.
C26_PeerUnreachableTolerated ==
    [][/\ (sched.pc = "connect" /\ sched' # sched) =>
              /\ UNCHANGED <<job_queue, jobs, term_queue>>
              /\ sched'.pc # "crashed"
       /\ (mon.pc = "notify" /\ mon' # mon /\ TermRow.job_id \in Ids(jobs)) =>
              /\ UNCHANGED <<job_queue, jobs, term_queue>>
              /\ mon'.pc # "crashed"]_vars

\* C27: once Scheduler.join has stopped and pruned the containers, no
\* container runs, now or later.
C27_NothingRunsAfterJoin ==
    joiner.pc = "pruned" => running = {}

\* C28: the step that follows a scan in which a sample raised a runtime-API
\* error adds no row to term_queue and does not end the Monitor thread.
C28_ApiErrorSkipsCycle ==
    [][(mon.pc = "queue_idle" /\ mon.api_error /\ mon' # mon) =>
          /\ term_queue' = term_queue
          /\ mon'.pc # "crashed"]_vars

\* C29: the Scheduler's selection steps, entered after the gate has passed,
\* find a waiting row: none of them ends the thread for want of a row, also
\* when a Terminate worker has deleted waiting rows since the gate.
C29_SelectionFindsRow ==
    [][(sched.pc \in {"select", "select_client", "select_job"}
           /\ sched' # sched) => sched'.pc # "crashed"]_vars

\* C30: term_queue never holds two rows for one job id, and an attempt to
\* queue a job id that is already queued (by a Terminate worker or by the
\* Monitor after an idle scan) leaves term_queue as it is without failing
\* the worker or ending the Monitor thread.
C30_SecondTerminationIntentIgnored ==
    [][/\ \A r1, r2 \in term_queue' : r1.job_id = r2.job_id => r1 = r2
       /\ \A w \in Workers :
             (/\ wk[w].pc = "t_insert"
              /\ wk[w].job_id \in TermIds(term_queue)
              /\ wk'[w] # wk[w])
                 => /\ term_queue' = term_queue
                    /\ wk'[w].pc # "t_retry"
       /\ (/\ mon.pc = "queue_idle"
           /\ mon.assigned
           /\ mon.idle \cap TermIds(term_queue) # {}
           /\ mon' # mon)
              => /\ term_queue' = term_queue
                 /\ mon'.pc # "crashed"]_vars

AcceptedTerminate(j) == [NoReply EXCEPT !.Msg = "Accepted",
                                        !.RequestType = "Terminate",
                                        !.JobID = j]

\* C31: a step that sends a reply reporting a change of the database finds
\* that change in the committed tables: Accepted/Start for a job id already
\* inserted into job_queue, Terminated for a job whose waiting row is
\* already gone, Accepted/Terminate for a job id already in term_queue.
C31_ReplyAfterCommit ==
    [][\A j \in JobIds :
          /\ AcceptedStart(j) \in replies' \ replies => j \in Range(admitted)
          /\ TerminatedReply(j) \in replies' \ replies =>
                 j \notin Ids(job_queue)
          /\ AcceptedTerminate(j) \in replies' \ replies =>
                 j \in TermIds(term_queue)]_vars

\* C32: a row that enters the waiting queue bears an id no admitted job has
\* borne, a row that enters history bears an id no history row bears, and
\* a container the Scheduler starts bears a name no started container has
\* borne.
C32_DispatchedAtMostOnce ==
    [][/\ \A r \in job_queue' \ job_queue : r.id \notin Range(admitted)
       /\ \A r \in jobs' \ jobs : r.id \notin Ids(jobs)
       /\ \A c \in running' \ running : c.name \notin launched]_vars

\* C32 witness: a job's container has been started and removed, the waiting
\* queue is empty, and the Scheduler is about to run the next job.
C32_Witness ==
    /\ \E n \in launched : n \notin Names(running) \cup created
    /\ job_queue = {}
    /\ sched.pc = "run1"
    /\ PyStr(sched.job.id) \notin launched

\* C33: every job id that has a row in term_queue eventually has none:
\* again and again the job id has no row in term_queue.
C33_TermRowsEventuallyDeleted ==
    \A j \in JobIds : []<>(j \notin TermIds(term_queue))

\* every running container eventually runs no more
ContainersTerminate ==
    \A j \in JobIds : []<>(PyStr(j) \notin Names(running))

\* C34: under strategy 0, if every running container eventually
\* terminates, every job id that has a row in the waiting queue eventually
\* has none (the admissions are finitely many, and the gate finds the
\* host's resources free again and again).
C34_WaitingJobsEventuallyLeave ==
    ContainersTerminate => \A j \in JobIds : []<>(j \notin Ids(job_queue))

=============================================================================
